---------------------------- MODULE Spec2Model ----------------------------
(***************************************************************************)
(* Model of the recommendation engine of the resume analyzer               *)
(* (src/recommender.py) as it is driven by the upload handler of           *)
(* src/main.py.                                                            *)
(*                                                                         *)
(* Real numbers are fixed point: similarities and scores are integers in   *)
(* units of 1/Scale, skill weights are integers in tenths, IDF values are  *)
(* integers in hundredths.  A text is a bag of skill strings (a function   *)
(* from the skill strings it contains to their number of occurrences):     *)
(* the order of the words of a text has no influence on its TF-IDF row.    *)
(***************************************************************************)
EXTENDS Integers, Sequences, FiniteSets, TLC

(***************************************************************************)
(* Bounds and fixed-point units                                            *)
(***************************************************************************)
\* largest number of skills in one analysed profile
MaxSkills == 3

\* fixed-point unit of similarities and scores: 1.0 is Scale
Scale == 10000

\* Python's None, and the marker of a key that analyzed_data does not hold
None == "<None>"
Absent == "<absent>"

Range(s) == {s[i] : i \in DOMAIN s}

Min(a, b) == IF a <= b THEN a ELSE b

Abs(a) == IF a < 0 THEN -a ELSE a

(***************************************************************************)
(* The catalogs built by Recommender.__init__                              *)
(***************************************************************************)
\* self.skill_weights, in tenths (1.2 is 12)
skill_weights ==
    [s \in {"Python", "Java", "SQL", "Machine Learning", "AWS", "Docker", "Kubernetes"} |->
        CASE s = "Python" -> 12
          [] s = "Java" -> 11
          [] s = "SQL" -> 11
          [] s = "Machine Learning" -> 13
          [] s = "AWS" -> 12
          [] s = "Docker" -> 11
          [] s = "Kubernetes" -> 12]

\* the default of self.skill_weights.get(skill, 1.0), in tenths
DefaultWeight == 10

\* self.skill_weights.get(skill, 1.0), in tenths
SkillWeight(skill) ==
    IF skill \in DOMAIN skill_weights THEN skill_weights[skill] ELSE DefaultWeight

\* self.industry_clusters: a dict, iterated in insertion order
industry_clusters ==
    << [name |-> "web_development", skills |-> <<"Python", "Java", "SQL", "Git">>],
       [name |-> "data_science", skills |-> <<"Python", "R", "Machine Learning", "Statistics">>],
       [name |-> "cloud_devops", skills |-> <<"Docker", "Kubernetes", "AWS", "Linux">>] >>

\* self.industry_clusters.get(industry, [])
ClusterSkills(industry) ==
    IF \E i \in DOMAIN industry_clusters : industry_clusters[i].name = industry
    THEN LET i == CHOOSE k \in DOMAIN industry_clusters : industry_clusters[k].name = industry
         IN  Range(industry_clusters[i].skills)
    ELSE {}

job_roles ==
    << [title |-> "Software Engineer",
        required_skills |-> <<"Python", "Java", "SQL", "Git", "Agile">>,
        description |-> "Develop and maintain software applications"],
       [title |-> "Data Scientist",
        required_skills |-> <<"Python", "R", "Machine Learning", "SQL", "Statistics">>,
        description |-> "Analyze complex data sets to drive business decisions"],
       [title |-> "DevOps Engineer",
        required_skills |-> <<"Docker", "Kubernetes", "CI/CD", "AWS", "Linux">>,
        description |-> "Implement and maintain deployment infrastructure"] >>

courses ==
    << [title |-> "Python Programming Masterclass",
        skills |-> <<"Python", "Data Structures", "Algorithms">>,
        level |-> "Intermediate"],
       [title |-> "Machine Learning Fundamentals",
        skills |-> <<"Python", "Machine Learning", "Statistics">>,
        level |-> "Advanced"],
       [title |-> "Cloud Computing Essentials",
        skills |-> <<"AWS", "Cloud Architecture", "DevOps">>,
        level |-> "Beginner"] >>

(***************************************************************************)
(* Inputs: the analysed profiles handed to get_recommendations             *)
(***************************************************************************)
\* skill strings a profile may hold: catalog skills and strings foreign to
\* the catalogs ("python" differs from "Python" as a string)
SkillUniverse ==
    {"Python", "SQL", "Agile", "R", "Machine Learning", "Statistics",
     "Docker", "Kubernetes", "AWS", "Welding", "python"}

\* values of analyzed_data['experience_level'] when the key is present
LevelStrings == {"beginner", "Beginner", "expert"}

\* values of analyzed_data['industry_preference'] when the key is present
PreferenceStrings == {"", "cloud_devops", "fintech"}

Requests ==
    {[skills |-> S, experience_level |-> l, industry_preference |-> p] :
        S \in {T \in SUBSET SkillUniverse : Cardinality(T) <= MaxSkills},
        l \in LevelStrings \cup {Absent},
        p \in PreferenceStrings \cup {Absent}}

(***************************************************************************)
(* TfidfVectorizer: analyzer, fit and transform                            *)
(***************************************************************************)
\* every token of the catalogs and of SkillUniverse, in the sorted order in
\* which CountVectorizer numbers the columns of its vocabulary
AllTokens ==
    << "agile", "algorithms", "architecture", "aws", "cd", "ci", "cloud", "data",
       "devops", "docker", "git", "java", "kubernetes", "learning", "linux",
       "machine", "python", "sql", "statistics", "structures", "welding" >>

\* the default analyzer on one skill string: lowercase, then the words of
\* two or more alphanumeric characters (token_pattern (?u)\b\w\w+\b), so "R"
\* yields no token and "CI/CD" yields two
Analyze(skill) ==
    CASE skill = "Python" -> {"python"}
      [] skill = "python" -> {"python"}
      [] skill = "Java" -> {"java"}
      [] skill = "SQL" -> {"sql"}
      [] skill = "Git" -> {"git"}
      [] skill = "Agile" -> {"agile"}
      [] skill = "R" -> {}
      [] skill = "Machine Learning" -> {"machine", "learning"}
      [] skill = "Statistics" -> {"statistics"}
      [] skill = "Docker" -> {"docker"}
      [] skill = "Kubernetes" -> {"kubernetes"}
      [] skill = "CI/CD" -> {"ci", "cd"}
      [] skill = "AWS" -> {"aws"}
      [] skill = "Linux" -> {"linux"}
      [] skill = "Data Structures" -> {"data", "structures"}
      [] skill = "Algorithms" -> {"algorithms"}
      [] skill = "Cloud Architecture" -> {"cloud", "architecture"}
      [] skill = "DevOps" -> {"devops"}
      [] skill = "Welding" -> {"welding"}

RECURSIVE SumOver(_, _)
\* the sum of f[x] over the elements x of S
SumOver(S, f) ==
    IF S = {} THEN 0
    ELSE LET x == CHOOSE y \in S : TRUE
         IN  f[x] + SumOver(S \ {x}, f)

RECURSIVE SumSeq(_)
SumSeq(s) == IF s = <<>> THEN 0 ELSE Head(s) + SumSeq(Tail(s))

\* ' '.join(list): the text holding every string of the list once
JoinText(list) == [s \in Range(list) |-> 1]

\* number of occurrences of a token in a text
TermCount(text, token) ==
    SumOver({s \in DOMAIN text : token \in Analyze(s)}, text)

\* CountVectorizer: the sorted vocabulary of the documents
Vocabulary(texts) ==
    SelectSeq(AllTokens,
              LAMBDA t : \E d \in DOMAIN texts : TermCount(texts[d], t) > 0)

\* the term-count matrix of the documents over their own vocabulary; it is
\* local to the fit_transform call that built it
CountMatrix(texts) ==
    LET vocab == Vocabulary(texts)
    IN  [d \in DOMAIN texts |->
            [j \in DOMAIN vocab |-> TermCount(texts[d], vocab[j])]]

\* smoothed inverse document frequency ln((1 + n) / (1 + df)) + 1 in
\* hundredths, for the n = 4 documents of every corpus built here (three
\* catalog entries and the profile)
SmoothIdf(df) ==
    CASE df = 1 -> 192
      [] df = 2 -> 151
      [] df = 3 -> 122
      [] df = 4 -> 100

\* the state fit leaves in the vectorizer: vocabulary_ and idf_
Fit(texts) ==
    LET X == CountMatrix(texts)
        cols == DOMAIN Vocabulary(texts)
    IN  [fitted |-> TRUE,
         vocabulary |-> Vocabulary(texts),
         idf |-> [j \in cols |->
                    SmoothIdf(Cardinality({d \in DOMAIN X : X[d][j] > 0}))]]

RECURSIVE SqrtSearch(_, _, _)
\* the largest r in lo..hi with r * r <= n
SqrtSearch(n, lo, hi) ==
    IF lo >= hi THEN lo
    ELSE LET mid == (lo + hi + 1) \div 2
         IN  IF mid * mid <= n THEN SqrtSearch(n, mid, hi)
             ELSE SqrtSearch(n, lo, mid - 1)

\* integer square root
ISqrt(n) == SqrtSearch(n, 0, 46340)

\* Normalize dividing a zero row by its zero norm: every entry is 0/0, which
\* -Scale stands for
NormalizeZeroDivide(row) ==
    LET norm == ISqrt(SumSeq([j \in DOMAIN row |-> row[j] * row[j]]))
    IN  [j \in DOMAIN row |-> IF norm = 0 THEN -Scale ELSE (row[j] * Scale) \div norm]

\* l2 normalisation of one row; a zero row is left as it is (its norm is
\* replaced by 1), so it never yields NaN
Normalize(row) ==
    LET norm == ISqrt(SumSeq([j \in DOMAIN row |-> row[j] * row[j]]))
        divisor == IF norm = 0 THEN 1 ELSE norm
    IN  [j \in DOMAIN row |-> (row[j] * Scale) \div divisor]

\* TfidfTransformer.transform: the counts times the idf_ held by the
\* vectorizer at the time of the call, column by column, then l2 rows
TfidfRows(X, idf) ==
    [d \in DOMAIN X |-> Normalize([j \in DOMAIN X[d] |-> X[d][j] * idf[j]])]

\* cosine_similarity(tfidf_matrix[-1:], tfidf_matrix[:-1])[0]: the rows are
\* unit or zero vectors, so the cosine is their dot product
cosine_similarity(rows) ==
    LET n == Len(rows)
        q == rows[n]
    IN  [d \in 1..(n - 1) |->
            SumSeq([j \in DOMAIN q |-> q[j] * rows[d][j]]) \div Scale]

(***************************************************************************)
(* Recommender: the pure parts of get_recommendations                      *)
(***************************************************************************)
\* _apply_skill_weights: every skill repeated int(weight * 10) times
_apply_skill_weights(skills) == [s \in skills |-> SkillWeight(s)]

\* one entry of industry_scores: len(common_skills) / len(cluster_skills),
\* kept as a fraction
IndustryScore(skills, cluster) ==
    [num |-> Cardinality(skills \cap Range(cluster.skills)),
     den |-> Len(cluster.skills)]

\* a > b on two fractions with positive denominators
ScoreGreater(a, b) == a.num * b.den > b.num * a.den

RECURSIVE MaxIndexLastWins(_, _, _)
\* MaxIndex with ties going to the later entry
MaxIndexLastWins(scores, i, best) ==
    IF i > Len(scores) THEN best
    ELSE MaxIndexLastWins(scores, i + 1,
                          IF ScoreGreater(scores[best], scores[i]) THEN best ELSE i)

RECURSIVE MaxIndex(_, _, _)
\* Python's max(..., key=...): scanning from entry i on, best is replaced
\* only by an entry whose key is strictly greater
MaxIndex(scores, i, best) ==
    IF i > Len(scores) THEN best
    ELSE MaxIndex(scores, i + 1,
                  IF ScoreGreater(scores[i], scores[best]) THEN i ELSE best)

\* _get_industry_match
_get_industry_match(skills) ==
    LET industry_scores ==
            [i \in DOMAIN industry_clusters |-> IndustryScore(skills, industry_clusters[i])]
    IN  IF industry_scores = <<>> THEN None
        ELSE industry_clusters[MaxIndex(industry_scores, 2, 1)].name

\* analyzed_data.get('experience_level', 'intermediate')
ExperienceLevelOf(req) ==
    IF req.experience_level = Absent THEN "intermediate" ELSE req.experience_level

\* IndustryMatchOf with the preference never consulted
IndustryMatchIgnoringPreference(req) == _get_industry_match(req.skills)

\* industry_match of get_recommendations: the preference when it is truthy
\* (present and not the empty string), the computed match otherwise
IndustryMatchOf(req) ==
    IF req.industry_preference = Absent \/ req.industry_preference = ""
    THEN _get_industry_match(req.skills)
    ELSE req.industry_preference

\* the sequence s sorted by descending key, keys[i] being the key of s[i],
\* equal keys in their order in s (list.sort(key=..., reverse=True) is stable)
SortDescending(s, keys) ==
    LET Before(i, j) == keys[i] > keys[j] \/ (keys[i] = keys[j] /\ i < j)
        Position(i) == 1 + Cardinality({j \in DOMAIN s : Before(j, i)})
    IN  [p \in DOMAIN s |-> s[CHOOSE i \in DOMAIN s : Position(i) = p]]

\* list[:3]
Top3(s) == SubSeq(s, 1, Min(Len(s), 3))

\* the documents handed to fit_transform by _recommend_jobs
JobTexts(weighted_skills) ==
    Append([i \in DOMAIN job_roles |-> JoinText(job_roles[i].required_skills)],
           weighted_skills)

\* the 0.2 of the industry bonus
IndustryBonus == Scale \div 5

\* industry_bonus granted to every job once an industry is matched
industry_bonus_any_job(job, industry_match) ==
    IF ClusterSkills(industry_match) # {} THEN IndustryBonus ELSE 0

\* industry_bonus of one job
industry_bonus(job, industry_match) ==
    IF \E skill \in Range(job.required_skills) : skill \in ClusterSkills(industry_match)
    THEN IndustryBonus ELSE 0

\* final_score without the clamp to 1.0
final_score_unclamped(similarity, bonus) == similarity + bonus

\* final_score = min(similarity + industry_bonus, 1.0)
final_score(similarity, bonus) == Min(similarity + bonus, Scale)

\* Relevant with the comparison not strict
RelevantOrZero(similarity) == similarity >= 0

\* if similarity > 0: the filter of _recommend_jobs
Relevant(similarity) == similarity > 0

\* _recommend_jobs after the similarities are computed
JobRecommendations(base_similarities, industry_match) ==
    LET kept == SelectSeq([i \in DOMAIN base_similarities |-> i],
                          LAMBDA i : Relevant(base_similarities[i]))
        Entry(idx) ==
            LET job == job_roles[idx]
                bonus == industry_bonus(job, industry_match)
            IN  [title |-> job.title,
                 required_skills |-> job.required_skills,
                 description |-> job.description,
                 match_score |-> final_score(base_similarities[idx], bonus),
                 industry_alignment |-> IF bonus > 0 THEN industry_match ELSE None]
        entries == [k \in DOMAIN kept |-> Entry(kept[k])]
    IN  Top3(SortDescending(entries, [k \in DOMAIN entries |-> entries[k].match_score]))

\* the documents handed to fit_transform by _recommend_courses
CourseTexts(weighted_skills) ==
    Append([i \in DOMAIN courses |-> JoinText(courses[i].skills)], weighted_skills)

\* str.lower() on the level strings of the catalogs and of the profiles
Lower(str) ==
    CASE str = "Beginner" -> "beginner"
      [] str = "Intermediate" -> "intermediate"
      [] str = "Advanced" -> "advanced"
      [] OTHER -> str

\* experience_levels.get(level.lower(), 1)
LevelOrdinal(level) ==
    CASE Lower(level) = "beginner" -> 0
      [] Lower(level) = "intermediate" -> 1
      [] Lower(level) = "advanced" -> 2
      [] OTHER -> 1

\* course['level'] == experience_level
experience_match(course, experience_level) == course.level = experience_level

\* MissingSkills comparing skills by their lowercased words
MissingSkillsByToken(course, user_skills) ==
    SelectSeq(course.skills,
              LAMBDA skill : \A u \in user_skills : Analyze(skill) # Analyze(u))

\* missing_skills: the skills of the course that are not in user_skills
MissingSkills(course, user_skills) ==
    SelectSeq(course.skills, LAMBDA skill : skill \notin user_skills)

\* the sort key relevance_score * 0.7 + skill_importance * 0.3, times 10
CourseKey(e) == 7 * e.relevance_score + 3 * e.skill_importance

\* _recommend_courses after the similarities are computed
CourseRecommendations(cosine_similarities, user_skills, experience_level) ==
    LET user_level == LevelOrdinal(experience_level)
        Missing(idx) == MissingSkills(courses[idx], user_skills)
        kept == SelectSeq([i \in DOMAIN cosine_similarities |-> i],
                          LAMBDA i : Missing(i) # <<>>)
        Entry(idx) ==
            LET course == courses[idx]
                level_diff == Abs(LevelOrdinal(course.level) - user_level)
                missing_skills == Missing(idx)
            IN  [title |-> course.title,
                 skills |-> course.skills,
                 level |-> course.level,
                 missing_skills |-> missing_skills,
                 relevance_score |-> (cosine_similarities[idx] * (10 - 2 * level_diff)) \div 10,
                 skill_importance |->
                    (SumSeq([k \in DOMAIN missing_skills |-> SkillWeight(missing_skills[k])])
                        * (Scale \div 10)) \div Len(missing_skills),
                 experience_match |-> experience_match(course, experience_level)]
        entries == [k \in DOMAIN kept |-> Entry(kept[k])]
    IN  Top3(SortDescending(entries, [k \in DOMAIN entries |-> CourseKey(entries[k])]))

\* fit_transform run with no other call in between: fit, then transform with
\* the idf_ just fitted
FitTransform(texts) == TfidfRows(CountMatrix(texts), Fit(texts).idf)

\* get_recommendations as one call running alone
get_recommendations(req) ==
    LET weighted_skills == _apply_skill_weights(req.skills)
        industry_match == IndustryMatchOf(req)
    IN  [status |-> "ok",
         job_recommendations |->
            JobRecommendations(cosine_similarity(FitTransform(JobTexts(weighted_skills))),
                               industry_match),
         course_recommendations |->
            CourseRecommendations(
                cosine_similarity(FitTransform(CourseTexts(weighted_skills))),
                req.skills, ExperienceLevelOf(req)),
         matched_industry |-> industry_match]

(***************************************************************************)
(* The state machine: callers of the one Recommender of main.py            *)
(***************************************************************************)
VARIABLES
    vectorizer,  \* self.vectorizer: the fitted state shared by every call
    pc,          \* per caller: its position in upload_resume / get_recommendations
    request,     \* per caller: the analyzed_data of its call
    frame,       \* per caller: the local variables of its call
    response     \* per caller: what its call returned or raised

vars == <<vectorizer, pc, request, frame, response>>

NoRequest == [skills |-> {}, experience_level |-> Absent, industry_preference |-> Absent]

NoFrame ==
    [weighted_skills |-> <<>>, industry_match |-> None,
     base_similarities |-> <<>>, job_recommendations |-> <<>>]

NoResponse == [status |-> "none"]

\* TfidfVectorizer() of Recommender.__init__: nothing fitted yet
Unfitted == [fitted |-> FALSE, vocabulary |-> <<>>, idf |-> <<>>]

InitFor(callers) ==
    /\ vectorizer = Unfitted
    /\ pc = [c \in callers |-> "idle"]
    /\ request = [c \in callers |-> NoRequest]
    /\ frame = [c \in callers |-> NoFrame]
    /\ response = [c \in callers |-> NoResponse]

\* upload_resume has parsed and analysed a resume and is about to call
\* get_recommendations with some analyzed_data of the set reqs
Upload(c, reqs) ==
    /\ pc[c] = "idle"
    /\ \E req \in reqs : request' = [request EXCEPT ![c] = req]
    /\ pc' = [pc EXCEPT ![c] = "called"]
    /\ UNCHANGED <<vectorizer, frame, response>>

\* get_recommendations up to the call of _recommend_jobs
Start(c) ==
    /\ pc[c] = "called"
    /\ frame' = [frame EXCEPT ![c] =
                    [weighted_skills |-> _apply_skill_weights(request[c].skills),
                     industry_match |-> IndustryMatchOf(request[c]),
                     base_similarities |-> <<>>,
                     job_recommendations |-> <<>>]]
    /\ pc' = [pc EXCEPT ![c] = "jobs_fit"]
    /\ UNCHANGED <<vectorizer, request, response>>

\* _recommend_jobs: the fit half of self.vectorizer.fit_transform(job_texts)
JobsFit(c) ==
    /\ pc[c] = "jobs_fit"
    /\ vectorizer' = Fit(JobTexts(frame[c].weighted_skills))
    /\ pc' = [pc EXCEPT ![c] = "jobs_transform"]
    /\ UNCHANGED <<request, frame, response>>

\* _recommend_jobs: the transform half of fit_transform, with the idf_ the
\* vectorizer holds now, and the rest of the function; a count matrix whose
\* width differs from that of idf_ makes transform raise, which upload_resume
\* turns into an error response
JobsTransform(c) ==
    /\ pc[c] = "jobs_transform"
    /\ LET X == CountMatrix(JobTexts(frame[c].weighted_skills))
       IN  IF Len(vectorizer.idf) # Len(X[1])
           THEN /\ response' = [response EXCEPT ![c] = [status |-> "error"]]
                /\ pc' = [pc EXCEPT ![c] = "done"]
                /\ UNCHANGED frame
           ELSE /\ LET base_similarities == cosine_similarity(TfidfRows(X, vectorizer.idf))
                   IN  frame' = [frame EXCEPT
                                    ![c].base_similarities = base_similarities,
                                    ![c].job_recommendations =
                                        JobRecommendations(base_similarities,
                                                           frame[c].industry_match)]
                /\ pc' = [pc EXCEPT ![c] = "courses_fit"]
                /\ UNCHANGED response
    /\ UNCHANGED <<vectorizer, request>>

\* _recommend_courses: the fit half of self.vectorizer.fit_transform(course_texts)
CoursesFit(c) ==
    /\ pc[c] = "courses_fit"
    /\ vectorizer' = Fit(CourseTexts(frame[c].weighted_skills))
    /\ pc' = [pc EXCEPT ![c] = "courses_transform"]
    /\ UNCHANGED <<request, frame, response>>

\* _recommend_courses: the transform half and the rest of the function, then
\* the return of get_recommendations
CoursesTransform(c) ==
    /\ pc[c] = "courses_transform"
    /\ LET X == CountMatrix(CourseTexts(frame[c].weighted_skills))
       IN  IF Len(vectorizer.idf) # Len(X[1])
           THEN response' = [response EXCEPT ![c] = [status |-> "error"]]
           ELSE response' = [response EXCEPT ![c] =
                    [status |-> "ok",
                     job_recommendations |-> frame[c].job_recommendations,
                     course_recommendations |->
                        CourseRecommendations(
                            cosine_similarity(TfidfRows(X, vectorizer.idf)),
                            request[c].skills, ExperienceLevelOf(request[c])),
                     matched_industry |-> frame[c].industry_match]]
    /\ pc' = [pc EXCEPT ![c] = "done"]
    /\ UNCHANGED <<vectorizer, request, frame>>

\* main.py as it runs: the handler is a coroutine that never awaits inside
\* get_recommendations, so one call runs at a time
Callers == {1}

Init == InitFor(Callers)

Next ==
    \E c \in Callers :
        \/ Upload(c, Requests)
        \/ Start(c)
        \/ JobsFit(c)
        \/ JobsTransform(c)
        \/ CoursesFit(c)
        \/ CoursesTransform(c)

Spec == Init /\ [][Next]_vars

\* parallel callers of the one Recommender, as threads would run it: the two
\* halves of fit_transform of one call may be separated by steps of another
ConcCallers == {1, 2}

ConcRequests ==
    {[skills |-> S, experience_level |-> l, industry_preference |-> Absent] :
        S \in {{}, {"Python"}, {"Welding"}, {"Docker", "Kubernetes", "AWS"}},
        l \in {Absent, "beginner"}}

InitConc == InitFor(ConcCallers)

NextConc ==
    \E c \in ConcCallers :
        \/ Upload(c, ConcRequests)
        \/ Start(c)
        \/ JobsFit(c)
        \/ JobsTransform(c)
        \/ CoursesFit(c)
        \/ CoursesTransform(c)

SpecConc == InitConc /\ [][NextConc]_vars

(***************************************************************************)
(* Properties                                                              *)
(***************************************************************************)
\* the call of caller c has returned a result
Returned(c) == pc[c] = "done" /\ response[c].status = "ok"

\* the index in job_roles of a returned job entry
JobIndex(entry) == CHOOSE i \in DOMAIN job_roles : job_roles[i].title = entry.title

\* the index in courses of a returned course entry
CourseIndex(entry) == CHOOSE i \in DOMAIN courses : courses[i].title = entry.title

\* the lowercased words of a set of skill strings
TokensOf(skills) == UNION {Analyze(s) : s \in skills}

\* no preference reaches the engine: the key is absent
NoPreference(req) == req.industry_preference = Absent

\* C1: every returned job_recommendations has at most 3 entries and every
\* match_score lies in [0, 1], also when the bonus is added to a base
\* similarity above 0.8
JobScoresInRange ==
    \A c \in DOMAIN pc :
        Returned(c) =>
            /\ Len(response[c].job_recommendations) <= 3
            /\ \A i \in DOMAIN response[c].job_recommendations :
                  /\ response[c].job_recommendations[i].match_score >= 0
                  /\ response[c].job_recommendations[i].match_score <= Scale

\* C1 witness: a returned job whose base similarity is above 0.8 and that got
\* the industry bonus
JobScoreClampedReached ==
    \E c \in DOMAIN pc :
        /\ Returned(c)
        /\ \E i \in DOMAIN response[c].job_recommendations :
              LET e == response[c].job_recommendations[i]
              IN  /\ frame[c].base_similarities[JobIndex(e)] > (Scale * 8) \div 10
                  /\ e.industry_alignment # None
                  /\ e.match_score = Scale

\* C2: every returned course has a non-empty missing_skills holding exactly
\* the course's skills that are not in the profile, in course order; a course
\* whose skills are all in the profile is not returned; at most 3 courses
CourseMissingSkillsExact ==
    \A c \in DOMAIN pc :
        Returned(c) =>
            LET recs == response[c].course_recommendations
                S == request[c].skills
            IN  /\ Len(recs) <= 3
                /\ \A i \in DOMAIN recs :
                      LET m == recs[i].missing_skills
                          all == courses[CourseIndex(recs[i])].skills
                      IN  /\ m # <<>>
                          /\ Range(m) = Range(all) \ S
                          /\ \A a, b \in DOMAIN m :
                                a < b =>
                                    \E x, y \in DOMAIN all :
                                        x < y /\ all[x] = m[a] /\ all[y] = m[b]
                /\ \A k \in DOMAIN courses :
                      Range(courses[k].skills) \subseteq S =>
                          \A i \in DOMAIN recs : recs[i].title # courses[k].title

\* C2 witness: a profile holding every skill of one course, which is left out
\* while another course is returned with a partial gap
CourseFullyCoveredReached ==
    \E c \in DOMAIN pc :
        /\ Returned(c)
        /\ \E k \in DOMAIN courses : Range(courses[k].skills) \subseteq request[c].skills
        /\ \E i \in DOMAIN response[c].course_recommendations :
              LET e == response[c].course_recommendations[i]
              IN  Len(e.missing_skills) < Len(e.skills)

\* C3: with no preference and a profile that meets no industry cluster, the
\* matched industry is null and no returned job carries the bonus or an
\* industry_alignment
NoIndustryWithoutOverlap ==
    \A c \in DOMAIN pc :
        (/\ Returned(c)
         /\ NoPreference(request[c])
         /\ \A k \in DOMAIN industry_clusters :
               request[c].skills \cap Range(industry_clusters[k].skills) = {})
        => /\ response[c].matched_industry = None
           /\ \A i \in DOMAIN response[c].job_recommendations :
                 LET e == response[c].job_recommendations[i]
                 IN  /\ e.industry_alignment = None
                     /\ e.match_score = frame[c].base_similarities[JobIndex(e)]

\* C4: whatever the interleaving, every call ends with the result it returns
\* when it runs alone
ConcurrentCallsIsolated ==
    \A c \in DOMAIN pc :
        pc[c] = "done" => response[c] = get_recommendations(request[c])

\* C5: for the skills Docker, Kubernetes, AWS and the level "beginner", Cloud
\* Computing Essentials is the first course returned and its experience_match
\* is true
CloudCourseFirstAndMatched ==
    \A c \in DOMAIN pc :
        (/\ Returned(c)
         /\ request[c].skills = {"Docker", "Kubernetes", "AWS"}
         /\ request[c].experience_level = "beginner")
        => /\ response[c].course_recommendations # <<>>
           /\ response[c].course_recommendations[1].title = "Cloud Computing Essentials"
           /\ response[c].course_recommendations[1].experience_match = TRUE

\* C6 as stated: a profile none of whose skill strings equals a required
\* skill of any job gets no job recommendation
NoStringOverlapNoJobs ==
    \A c \in DOMAIN pc :
        (/\ Returned(c)
         /\ \A k \in DOMAIN job_roles :
               request[c].skills \cap Range(job_roles[k].required_skills) = {})
        => response[c].job_recommendations = <<>>

\* C6 amended: a profile none of whose lowercased words occurs among the
\* words of the required skills of any job gets no job recommendation
NoTokenOverlapNoJobs ==
    \A c \in DOMAIN pc :
        (/\ Returned(c)
         /\ \A k \in DOMAIN job_roles :
               TokensOf(request[c].skills)
                   \cap TokensOf(Range(job_roles[k].required_skills)) = {})
        => response[c].job_recommendations = <<>>

\* C6 witness: a non-empty profile sharing no word with any job was answered
\* with no job
NoTokenOverlapReached ==
    \E c \in DOMAIN pc :
        /\ Returned(c)
        /\ "Welding" \in request[c].skills
        /\ \A k \in DOMAIN job_roles :
              TokensOf(request[c].skills)
                  \cap TokensOf(Range(job_roles[k].required_skills)) = {}
        /\ response[c].job_recommendations = <<>>

\* what C7 says of a call whose preference is pref: it is returned verbatim
\* and the bonus of every returned job is decided against its cluster only
PreferenceUsed(c, pref) ==
    /\ response[c].matched_industry = pref
    /\ \A i \in DOMAIN response[c].job_recommendations :
          LET e == response[c].job_recommendations[i]
              base == frame[c].base_similarities[JobIndex(e)]
              hit == Range(e.required_skills) \cap ClusterSkills(pref) # {}
          IN  /\ e.industry_alignment = IF hit THEN pref ELSE None
              /\ e.match_score = Min(base + (IF hit THEN Scale \div 5 ELSE 0), Scale)

\* C7 as stated: whenever a preference is supplied, it is the returned
\* matched_industry and the only cluster the bonus looks at
PreferenceAlwaysOverrides ==
    \A c \in DOMAIN pc :
        (Returned(c) /\ request[c].industry_preference # Absent)
        => PreferenceUsed(c, request[c].industry_preference)

\* C7 amended: whenever a non-empty preference is supplied, it is the
\* returned matched_industry and the only cluster the bonus looks at
NonEmptyPreferenceOverrides ==
    \A c \in DOMAIN pc :
        (/\ Returned(c)
         /\ request[c].industry_preference # Absent
         /\ request[c].industry_preference # "")
        => PreferenceUsed(c, request[c].industry_preference)

\* C7 witness: a preference that the computed match would not have chosen was
\* returned, with a job to decide the bonus for
PreferenceOverrideReached ==
    \E c \in DOMAIN pc :
        /\ Returned(c)
        /\ request[c].industry_preference = "cloud_devops"
        /\ _get_industry_match(request[c].skills) # "cloud_devops"
        /\ response[c].matched_industry = "cloud_devops"
        /\ response[c].job_recommendations # <<>>

\* C8: a call with no skills never raises: its weighted text is empty, it
\* ends with a complete result, every similarity of the empty query is 0, so
\* no job is returned and every course has relevance 0
EmptyProfileDegrades ==
    \A c \in DOMAIN pc :
        (request[c].skills = {} /\ pc[c] \notin {"idle", "called"})
        => /\ DOMAIN frame[c].weighted_skills = {}
           /\ pc[c] = "done" =>
                 /\ response[c].status = "ok"
                 /\ DOMAIN response[c] =
                       {"status", "job_recommendations", "course_recommendations",
                        "matched_industry"}
                 /\ response[c].job_recommendations = <<>>
                 /\ response[c].matched_industry = IndustryMatchOf(request[c])
                 /\ Len(response[c].course_recommendations) = Len(courses)
                 /\ \A i \in DOMAIN response[c].course_recommendations :
                       response[c].course_recommendations[i].relevance_score = 0

\* C8 witness: a call with no skills has returned
EmptyProfileReturned ==
    \E c \in DOMAIN pc :
        /\ pc[c] = "done"
        /\ request[c].skills = {}
        /\ response[c].status = "ok"
        /\ Len(response[c].course_recommendations) = 3

\* the score of cluster k for a set of skills, as a fraction
ClusterScore(skills, k) ==
    [num |-> Cardinality({s \in skills : \E x \in DOMAIN industry_clusters[k].skills :
                                            industry_clusters[k].skills[x] = s}),
     den |-> Cardinality(DOMAIN industry_clusters[k].skills)]

\* C9: the computed industry is a cluster of maximal score
\* |skills /\ cluster| / |cluster|, and among the clusters of maximal score
\* the one declared first
IndustryMatchIsFirstMaximum ==
    \A c \in DOMAIN pc :
        (/\ pc[c] \notin {"idle", "called"}
         /\ request[c].industry_preference \in {Absent, ""})
        => \E k \in DOMAIN industry_clusters :
              /\ frame[c].industry_match = industry_clusters[k].name
              /\ \A j \in DOMAIN industry_clusters :
                    LET sj == ClusterScore(request[c].skills, j)
                        sk == ClusterScore(request[c].skills, k)
                    IN  /\ sj.num * sk.den <= sk.num * sj.den
                        /\ j < k => sj.num * sk.den < sk.num * sj.den

\* C9 witness: two clusters tie for a positive maximal score and the one
\* declared first was returned
IndustryTieReached ==
    \E c \in DOMAIN pc :
        /\ Returned(c)
        /\ NoPreference(request[c])
        /\ \E k, j \in DOMAIN industry_clusters :
              /\ k < j
              /\ ClusterScore(request[c].skills, k).num > 0
              /\ ClusterScore(request[c].skills, k) = ClusterScore(request[c].skills, j)
              /\ response[c].matched_industry = industry_clusters[k].name

\* C10: the returned jobs are exactly those of positive base similarity; each
\* has the 0.2 bonus exactly when one of its required skills is in the cluster
\* of the matched industry, match_score = min(base + bonus, 1), and
\* industry_alignment is the matched industry with the bonus, null without
JobBonusRule ==
    \A c \in DOMAIN pc :
        Returned(c) =>
            LET recs == response[c].job_recommendations
                base == frame[c].base_similarities
                matched == response[c].matched_industry
            IN  /\ \A k \in DOMAIN job_roles :
                      base[k] > 0 <=> \E i \in DOMAIN recs : recs[i].title = job_roles[k].title
                /\ \A i \in DOMAIN recs :
                      LET k == JobIndex(recs[i])
                          hit == \E x \in DOMAIN job_roles[k].required_skills :
                                    job_roles[k].required_skills[x] \in ClusterSkills(matched)
                          bonus == IF hit THEN Scale \div 5 ELSE 0
                      IN  /\ recs[i].match_score = Min(base[k] + bonus, Scale)
                          /\ recs[i].industry_alignment = IF hit THEN matched ELSE None

\* C10 witness: one call returned a job with the bonus and a job without it
JobBonusBothWaysReached ==
    \E c \in DOMAIN pc :
        /\ Returned(c)
        /\ \E i, j \in DOMAIN response[c].job_recommendations :
              /\ response[c].job_recommendations[i].industry_alignment # None
              /\ response[c].job_recommendations[j].industry_alignment = None

=============================================================================
